---- MODULE Spec2Model ----
(***************************************************************************)
(* A model of the toy payments engine.                                     *)
(*                                                                         *)
(*   src/src/account.rs          Transaction::validate, round and the      *)
(*                               Account state machine (Option<f64>        *)
(*                               amounts)                                  *)
(*   src/src/account_manager.rs  the AccountManager main.rs runs, with its *)
(*                               own Transaction (f64 amount) and Account  *)
(*   src/src/main.rs             main, from its start to its return        *)
(*                                                                         *)
(* Five specifications share the variables:                                *)
(*   Spec          main.rs driving account_manager.rs                      *)
(*   SpecAccount   an account.rs Account driven through                    *)
(*                 Account::process_transaction                            *)
(*   SpecValidate  Transaction::validate applied to one transaction        *)
(*   SpecRound     round applied to one value                              *)
(*   SpecSwap      two managers reading one stream, one pair swapped       *)
(*                                                                         *)
(* f64 values are IEEE 754 binary64 numbers, records [cls, s, m, e]: a     *)
(* finite number is s * m * 2^e, the significand m an integer below 2^53   *)
(* kept as a sequence of 16-bit limbs; the infinities and the NaN keep     *)
(* their sign. Addition and subtraction round to nearest, ties to even.    *)
(*                                                                         *)
(* The amounts of the records are decimals; an amount is the f64 its       *)
(* decimal text parses to (from_decimal). SpecAccount deposits and         *)
(* withdraws 100, 0.6 and 0.7.                                             *)
(***************************************************************************)
EXTENDS Integers, Sequences, FiniteSets, TLC

VARIABLES
    pc,          \* position of the running program
    n,           \* number of records consumed so far
    txn,         \* the record consumed last (NoTxn before the first)
    accounts,    \* AccountManager.accounts : client -> Account
    out,         \* lines written to stdout by main
    account,     \* an account.rs Account
    prev,        \* history: `account` before the last record
    posted_ids,  \* history: tx ids ever recorded into account.transactions
    removed_ids, \* history: tx ids a chargeback removed from held
    unique,      \* history: no deposit/withdrawal was recorded under a used id
    result,      \* value returned by Transaction::validate or by round
    input,       \* the value given to round
    swapped,     \* the manager's accounts after the stream with one pair swapped
    applied      \* history: sums of the amounts applied to `account`

vars == <<pc, n, txn, accounts, out, account, prev, posted_ids, removed_ids, unique,
         result, input, swapped, applied>>

----------------------------------------------------------------------------
(* Bounds *)

MaxTx == 2
MaxSteps == 5
MaxRecords == 4

TxIds == 1..MaxTx
Clients == {1, 2}

----------------------------------------------------------------------------
(* Natural numbers of any size, for the significands of f64 arithmetic: a
   sequence of limbs below Base, the lowest first, without high zero limbs
   (0 is <<>>) *)

LimbBits == 16
Base == 65536

\* floor(log2(k)) for k >= 1
RECURSIVE Log2(_)
Log2(k) == IF k < 2 THEN 0 ELSE 1 + Log2(k \div 2)

\* 2^k
RECURSIVE Pow2(_)
Pow2(k) == IF k = 0 THEN 1 ELSE 2 * Pow2(k - 1)

Pow2Table == [k \in 0..LimbBits |-> Pow2(k)]

Max(i, j) == IF i >= j THEN i ELSE j
Min(i, j) == IF i <= j THEN i ELSE j

Limb(a, i) == IF i <= Len(a) THEN a[i] ELSE 0
Rest(a) == IF a = <<>> THEN <<>> ELSE Tail(a)

RECURSIVE trim(_)
trim(a) ==
    IF a # <<>> /\ a[Len(a)] = 0 THEN trim(SubSeq(a, 1, Len(a) - 1)) ELSE a

RECURSIVE zeros(_)
zeros(q) == IF q <= 0 THEN <<>> ELSE <<0>> \o zeros(q - 1)

\* a + b + c, for a carry c
RECURSIVE big_add(_, _, _)
big_add(a, b, c) ==
    IF a = <<>> /\ b = <<>> THEN (IF c = 0 THEN <<>> ELSE <<c>>)
    ELSE LET t == Limb(a, 1) + Limb(b, 1) + c IN
         <<t % Base>> \o big_add(Rest(a), Rest(b), t \div Base)

\* a - b - c for a >= b + c, for a borrow c; high zero limbs are left
RECURSIVE big_sub(_, _, _)
big_sub(a, b, c) ==
    IF a = <<>> THEN <<>>
    ELSE LET t == a[1] - Limb(b, 1) - c IN
         <<IF t < 0 THEN t + Base ELSE t>>
            \o big_sub(Tail(a), Rest(b), IF t < 0 THEN 1 ELSE 0)

RECURSIVE big_cmp_at(_, _, _)
big_cmp_at(a, b, i) ==
    IF i = 0 THEN 0
    ELSE IF a[i] > b[i] THEN 1
    ELSE IF a[i] < b[i] THEN -1
    ELSE big_cmp_at(a, b, i - 1)

\* 1, 0 or -1 as a is above, equal to or below b
big_cmp(a, b) ==
    IF Len(a) > Len(b) THEN 1
    ELSE IF Len(a) < Len(b) THEN -1
    ELSE big_cmp_at(a, b, Len(a))

\* a * 2^r + c for 0 <= r < LimbBits and c < 2^r
RECURSIVE shl_bits(_, _, _)
shl_bits(a, r, c) ==
    IF a = <<>> THEN (IF c = 0 THEN <<>> ELSE <<c>>)
    ELSE <<(a[1] % Pow2Table[LimbBits - r]) * Pow2Table[r] + c>>
            \o shl_bits(Tail(a), r, a[1] \div Pow2Table[LimbBits - r])

\* a * 2^d
big_shl(a, d) ==
    IF a = <<>> THEN <<>>
    ELSE zeros(d \div LimbBits) \o shl_bits(a, d % LimbBits, 0)

\* floor(a / 2^r) for 0 <= r < LimbBits; high zero limbs are left
RECURSIVE shr_bits(_, _)
shr_bits(a, r) ==
    IF a = <<>> THEN <<>>
    ELSE <<a[1] \div Pow2Table[r] + (Limb(a, 2) % Pow2Table[r]) * Pow2Table[LimbBits - r]>>
            \o shr_bits(Tail(a), r)

\* floor(a / 2^d)
big_shr(a, d) ==
    IF d \div LimbBits >= Len(a) THEN <<>>
    ELSE trim(shr_bits(SubSeq(a, d \div LimbBits + 1, Len(a)), d % LimbBits))

\* bit i of a, bit 0 the lowest
bit(a, i) == (Limb(a, i \div LimbBits + 1) \div Pow2Table[i % LimbBits]) % 2

\* the bits of a below bit i are all 0
low_zero(a, i) ==
    /\ \A j \in 1..(i \div LimbBits) : Limb(a, j) = 0
    /\ Limb(a, i \div LimbBits + 1) % Pow2Table[i % LimbBits] = 0

\* the number of bits of a: 0 for 0, floor(log2(a)) + 1 otherwise
bit_length(a) ==
    IF a = <<>> THEN 0 ELSE (Len(a) - 1) * LimbBits + Log2(a[Len(a)]) + 1

\* a * k + c for 0 <= k <= 10000 and c < k
RECURSIVE big_mul_small(_, _, _)
big_mul_small(a, k, c) ==
    IF a = <<>> THEN (IF c = 0 THEN <<>> ELSE <<c>>)
    ELSE LET t == a[1] * k + c IN
         <<t % Base>> \o big_mul_small(Tail(a), k, t \div Base)

\* the limbs 1..i of floor(a / k) and the remainder, for 0 < k <= 10000, with
\* rem the remainder of the limbs above i
RECURSIVE big_divmod_at(_, _, _, _)
big_divmod_at(a, k, i, rem) ==
    IF i = 0 THEN [q |-> <<>>, r |-> rem]
    ELSE LET t == rem * Base + a[i]
             lower == big_divmod_at(a, k, i - 1, t % k)
         IN  [q |-> Append(lower.q, t \div k), r |-> lower.r]

\* floor(a / k) and a mod k
big_divmod_small(a, k) ==
    LET d == big_divmod_at(a, k, Len(a), 0) IN [q |-> trim(d.q), r |-> d.r]

\* the integer a, for a below 2^31
big_int(a) == Limb(a, 1) + Limb(a, 2) * Base

\* the natural number i
big_nat(i) == trim(<<i % Base, i \div Base>>)

----------------------------------------------------------------------------
(* f64: IEEE 754 binary64 *)

\* A value is [cls, s, m, e]: s is 1 when the sign bit is clear and -1 when
\* it is set;
\*   cls = "fin"  the number s * m * 2^e, with m below 2^53 and
\*                MinExp <= e <= MaxExp; m >= 2^52 for a normal number, and
\*                e = MinExp for a subnormal number and for zero (m = 0)
\*   cls = "inf"  an infinity
\*   cls = "nan"  a NaN

MantBits == 53
MinExp == -1074
MaxExp == 971

Fin(s, m, e) == [cls |-> "fin", s |-> s, m |-> m, e |-> e]
Zero(s) == Fin(s, <<>>, MinExp)
Inf(s) == [cls |-> "inf", s |-> s, m |-> <<>>, e |-> 0]

\* f64::NAN, whose sign bit is clear, and the NaN whose sign bit is set
NaN == [cls |-> "nan", s |-> 1, m |-> <<>>, e |-> 0]
NegNaN == [cls |-> "nan", s |-> -1, m |-> <<>>, e |-> 0]
PInf == Inf(1)
NInf == Inf(-1)
NegZero == Zero(-1)
\* the subnormal of sign s nearest to zero
Sub(s) == Fin(s, <<1>>, MinExp)

\* The number s * m * 2^e of any precision, rounded to the nearest f64, to
\* the one with an even significand when two are as near; beyond the largest
\* finite f64 the result is an infinity. r is the number of low bits of m
\* that do not fit.
to_f64(d) ==
    LET p == bit_length(d.m)
        r == Max(p - MantBits, MinExp - d.e)
    IN  IF d.m = <<>> THEN Zero(d.s)
        ELSE IF r <= 0
        THEN (IF d.e + r > MaxExp THEN Inf(d.s)
              ELSE Fin(d.s, big_shl(d.m, 0 - r), d.e + r))
        ELSE LET q == big_shr(d.m, r)
                 up == /\ bit(d.m, r - 1) = 1
                       /\ ~low_zero(d.m, r - 1) \/ bit(q, 0) = 1
                 q1 == IF up THEN big_add(q, <<>>, 1) ELSE q
                 carry == bit_length(q1) > MantBits
                 m1 == IF carry THEN big_shr(q1, 1) ELSE q1
                 e1 == d.e + r + (IF carry THEN 1 ELSE 0)
             IN  IF e1 > MaxExp THEN Inf(d.s) ELSE Fin(d.s, m1, e1)

\* The sum of two numbers s * m * 2^e, not rounded. A sum that is zero has
\* the sign of the terms when they agree and is +0 otherwise.
exact_sum(x, y) ==
    LET e == Min(x.e, y.e)
        a == big_shl(x.m, x.e - e)
        b == big_shl(y.m, y.e - e)
        c == big_cmp(a, b)
    IN  IF x.s = y.s THEN [s |-> x.s, m |-> big_add(a, b, 0), e |-> e]
        ELSE IF c > 0 THEN [s |-> x.s, m |-> trim(big_sub(a, b, 0)), e |-> e]
        ELSE IF c < 0 THEN [s |-> y.s, m |-> trim(big_sub(b, a, 0)), e |-> e]
        ELSE [s |-> 1, m |-> <<>>, e |-> e]

negate(x) == [x EXCEPT !.s = 0 - @]

\* `i as f64` for an integer i
F(i) == to_f64([s |-> IF i < 0 THEN -1 ELSE 1,
                m |-> big_nat(IF i < 0 THEN 0 - i ELSE i),
                e |-> 0])

\* The f64 a decimal text parses to (f64::from_str rounds to nearest): k is
\* the decimal in units of 1/10000. |k| * 2^80 is divided by 10000; a
\* remainder is kept as one more low bit, below the bits that rounding reads.
from_decimal(k) ==
    LET d == big_divmod_small(zeros(5) \o big_nat(IF k < 0 THEN 0 - k ELSE k),
                              10000)
    IN  to_f64([s |-> IF k < 0 THEN -1 ELSE 1,
                m |-> shl_bits(d.q, 1, IF d.r = 0 THEN 0 ELSE 1),
                e |-> 0 - (5 * LimbBits + 1)])

\* x + y of two f64. A NaN operand is the result; the NaN of an invalid
\* operation has its sign bit set (x86-64 addsd/subsd) and is the result of
\* +infinity + -infinity. Which NaN is the result when both operands are
\* NaN is not fixed by Rust: first tells whether it is x or y.
add(x, y, first) ==
    CASE x.cls = "nan" /\ y.cls = "nan" -> IF first THEN x ELSE y
      [] x.cls = "nan" -> x
      [] y.cls = "nan" -> y
      [] x.cls = "inf" /\ y.cls = "inf" -> IF x.s = y.s THEN x ELSE NegNaN
      [] x.cls = "inf" -> x
      [] y.cls = "inf" -> y
      [] OTHER -> to_f64(exact_sum(x, y))

\* x += y as the build compiles it in deposit and resolve: of two NaN the
\* result is the one added, y
fadd(x, y) == add(x, y, FALSE)

\* x -= y: of two NaN the result is x
fsub(x, y) == IF y.cls = "nan" THEN add(x, y, TRUE) ELSE add(x, negate(y), TRUE)

\* total += y in the loop of get_held_amount, and the x + y of
\* get_total_amount: of two NaN the build returns one or the other (the
\* debug and the release build differ), so both are results
fadd_any(x, y) == {add(x, y, TRUE), add(x, y, FALSE)}

\* x >= y
fge(x, y) ==
    CASE x.cls = "nan" \/ y.cls = "nan" -> FALSE
      [] x.cls = "inf" /\ y.cls = "inf" -> x.s >= y.s
      [] x.cls = "inf" -> x.s = 1
      [] y.cls = "inf" -> y.s = -1
      [] OTHER -> LET d == exact_sum(x, negate(y)) IN d.m = <<>> \/ d.s = 1

\* f64::is_normal: neither zero, infinite, subnormal nor NaN
is_normal(x) == x.cls = "fin" /\ bit_length(x.m) = MantBits

\* f64::is_sign_positive: the sign bit is clear, also that of a NaN
is_sign_positive(x) == x.s = 1

\* Option<T>
None == <<>>
Some(x) == <<x>>
unwrap_or(o, d) == IF o = None THEN d ELSE o[1]

----------------------------------------------------------------------------
(* account.rs: round *)

\* The f64 values given to round, and those it returns, are named by
\* decimals with five fractional digits: [neg, w, f] is the f64 nearest to
\* w + f / 100000, negated when neg (what parsing the decimal gives, and what
\* the division of an integer by 10000.0 gives).
Dec(neg, w, f) == [neg |-> neg, w |-> w, f |-> f]
NoNum == Dec(FALSE, 0, 0)

I32_MAX == 2147483647
TenThousand == 10000

\* 2^k mod 625
RECURSIVE Pow2Mod625(_)
Pow2Mod625(k) == IF k = 0 THEN 1 ELSE (2 * Pow2Mod625(k - 1)) % 625

\* TRUE when the f64 product x * 10000.0 is below the integer k, for x the
\* f64 nearest to k / 10000 and 1 <= k < 2^31. With e = floor(log2(k)), x has
\* the 53-bit significand m nearest to k * 2^s / 625 (10000 = 16 * 625), where
\* s = 61 - e when k / 2^e >= 625 / 512 and s = 62 - e otherwise. With
\* rem = k * 2^s mod 625, x is below k / 10000 when 0 < rem < 625 / 2, and the
\* exact product is then k - rem / 2^s, which is rem / 512 (s = 61 - e) or
\* rem / 1024 (s = 62 - e) units in the last place below k. The product is
\* rounded to nearest: it stays below k only when that is more than half a
\* unit, so only for s = 61 - e and rem > 256. (Below a power of two the
\* f64 are twice as dense, but there s = 62 - e and rem = 2^62 mod 625 = 404,
\* so x is not below k / 10000.)
product_below(k) ==
    LET e == Log2(k)
        wide == IF e >= 9 THEN k >= 625 * Pow2(e - 9)
                ELSE k * Pow2(9 - e) >= 625
        rem == ((k % 625) * Pow2Mod625(61 - e)) % 625
    IN  wide /\ rem > 256 /\ 2 * rem < 625

\* `x as i32` for x = num * 10000.0: the fraction of the f64 product is
\* dropped and the result saturates at i32::MAX and i32::MIN. The i32 is given
\* as [neg, q, r], the integer q * 10000 + r with r < 10000, negated when neg.
\* The f64 product differs from the decimal product w * 10000 + f / 10 by far
\* less than 1 / 10, so that its integer part is another one only when the
\* decimal product is an integer and the f64 product is below it.
mul_as_i32(num) ==
    LET r == num.f \div 10
        limq == I32_MAX \div TenThousand
        limr == (I32_MAX % TenThousand) + (IF num.neg THEN 1 ELSE 0)
        over == num.w > limq \/ (num.w = limq /\ r > limr)
        fits == num.w < limq \/ (num.w = limq /\ r <= I32_MAX % TenThousand)
        below == /\ num.f % 10 = 0
                 /\ fits
                 /\ num.w > 0 \/ r > 0
                 /\ product_below(num.w * TenThousand + r)
        q1 == IF over THEN limq
              ELSE IF below /\ r = 0 THEN num.w - 1
              ELSE num.w
        r1 == IF over THEN limr
              ELSE IF below THEN (IF r = 0 THEN TenThousand - 1 ELSE r - 1)
              ELSE r
    IN  [neg |-> num.neg /\ ~(q1 = 0 /\ r1 = 0), q |-> q1, r |-> r1]

\* temp as f64 / 10000.0
round(num) ==
    LET temp == mul_as_i32(num) IN Dec(temp.neg, temp.q, temp.r * 10)

----------------------------------------------------------------------------
(* account.rs: Transaction *)

TransactionType == {"deposit", "withdrawal", "dispute", "resolve", "chargeback"}

Transaction(type, client, tx, amount) ==
    [type |-> type, client |-> client, tx |-> tx, amount |-> amount]

NoTxn == Transaction("none", 0, 0, None)

\* The amount is checked with is_normal only: a negative amount passes.
validate_no_sign(self) ==
    IF self.type = "withdrawal" \/ self.type = "deposit"
    THEN IF self.amount # None
         THEN IF is_normal(self.amount[1]) THEN Some(self) ELSE None
         ELSE None
    ELSE Some(self)

\* The amount is checked for every transaction type.
validate_all_types(self) ==
    IF self.amount # None
    THEN IF is_normal(self.amount[1]) /\ is_sign_positive(self.amount[1])
         THEN Some(self)
         ELSE None
    ELSE None

validate(self) ==
    IF self.type = "withdrawal" \/ self.type = "deposit"
    THEN IF self.amount # None
         THEN IF is_normal(self.amount[1]) /\ is_sign_positive(self.amount[1])
              THEN Some(self)
              ELSE None
         ELSE None
    ELSE Some(self)

----------------------------------------------------------------------------
(* account.rs: Account *)

\* HashMap<u32, Transaction> as a function on the set of its keys
EmptyMap == [k \in {} |-> NoTxn]
insert(m, k, val) == (k :> val) @@ m
remove(m, k) == [x \in (DOMAIN m) \ {k} |-> m[x]]

Account_new(client_id) ==
    [transactions |-> EmptyMap,
     held_transactions |-> EmptyMap,
     frozen |-> FALSE,
     available_balance |-> F(0),
     client_id |-> client_id]

withdrawal(self, amount) ==
    IF fge(self.available_balance, amount)
    THEN [self |-> [self EXCEPT !.available_balance = fsub(@, amount)], ret |-> TRUE]
    ELSE [self |-> self, ret |-> FALSE]

\* a deposit also clears the frozen flag
deposit_unfreezes(self, amount) ==
    [self EXCEPT !.available_balance = fadd(@, amount), !.frozen = FALSE]

deposit(self, amount) == [self EXCEPT !.available_balance = fadd(@, amount)]

\* the disputed transaction is copied to held but stays in posted
dispute_no_remove(self, disputed) ==
    IF disputed.tx \in DOMAIN self.transactions
    THEN LET transaction == self.transactions[disputed.tx] IN
         [self EXCEPT
            !.available_balance = fsub(@, unwrap_or(transaction.amount, F(0))),
            !.held_transactions = insert(@, transaction.tx, transaction)]
    ELSE self

\* a transaction that is already held is disputed again: its amount is
\* subtracted a second time
dispute_held_again(self, disputed) ==
    IF disputed.tx \in DOMAIN self.transactions
    THEN LET transaction == self.transactions[disputed.tx] IN
         [self EXCEPT
            !.transactions = remove(@, disputed.tx),
            !.available_balance = fsub(@, unwrap_or(transaction.amount, F(0))),
            !.held_transactions = insert(@, transaction.tx, transaction)]
    ELSE IF disputed.tx \in DOMAIN self.held_transactions
    THEN [self EXCEPT
            !.available_balance =
                fsub(@, unwrap_or(self.held_transactions[disputed.tx].amount, F(0)))]
    ELSE self

dispute(self, disputed) ==
    IF disputed.tx \in DOMAIN self.transactions
    THEN LET transaction == self.transactions[disputed.tx] IN
         [self EXCEPT
            !.transactions = remove(@, disputed.tx),
            !.available_balance = fsub(@, unwrap_or(transaction.amount, F(0))),
            !.held_transactions = insert(@, transaction.tx, transaction)]
    ELSE self

resolve(self, resolved) ==
    IF resolved.tx \in DOMAIN self.held_transactions
    THEN LET transaction == self.held_transactions[resolved.tx] IN
         [self EXCEPT
            !.held_transactions = remove(@, resolved.tx),
            !.available_balance = fadd(@, unwrap_or(transaction.amount, F(0))),
            !.transactions = insert(@, transaction.tx, transaction)]
    ELSE self

\* the account is frozen whether or not the transaction is held
chargeback_always_freezes(self, charged_back) ==
    [self EXCEPT
        !.held_transactions = remove(@, charged_back.tx),
        !.frozen = TRUE]

\* the transaction is looked up in posted as well as in held
chargeback_any_map(self, charged_back) ==
    IF charged_back.tx \in DOMAIN self.held_transactions
       \/ charged_back.tx \in DOMAIN self.transactions
    THEN [self EXCEPT
            !.held_transactions = remove(@, charged_back.tx),
            !.transactions = remove(@, charged_back.tx),
            !.frozen = TRUE]
    ELSE self

chargeback(self, charged_back) ==
    IF charged_back.tx \in DOMAIN self.held_transactions
    THEN [self EXCEPT
            !.held_transactions = remove(@, charged_back.tx),
            !.frozen = TRUE]
    ELSE self

get_available_amount(self) == self.available_balance

\* total += value.amount.unwrap_or(0.0) over the values of a map, from 0.0.
\* HashMap::values() yields the values in an order that changes from one run
\* to the next, and f64 addition is not associative: the result is the set
\* of the totals of all orders (k is the key of the value added last)
RECURSIVE sum_amounts(_, _)
sum_amounts(m, keys) ==
    IF keys = {} THEN {F(0)}
    ELSE UNION {UNION {fadd_any(total, unwrap_or(m[k].amount, F(0))) :
                          total \in sum_amounts(m, keys \ {k})} : k \in keys}

\* The values the call can return
get_held_amount(self) ==
    sum_amounts(self.held_transactions, DOMAIN self.held_transactions)

\* The values the call can return: self.available_balance + held for every
\* value of held that get_held_amount can return
get_total_amount(self) ==
    UNION {fadd_any(self.available_balance, held) : held \in get_held_amount(self)}

is_frozen(self) == self.frozen

get_id(self) == self.client_id

\* a deposit under a tx id already in transactions keeps the record stored
\* first
process_transaction_keep_first(self, transaction) ==
    CASE transaction.type = "deposit" ->
            [deposit(self, unwrap_or(transaction.amount, F(0))) EXCEPT
                !.transactions =
                    IF transaction.tx \in DOMAIN @ THEN @
                    ELSE insert(@, transaction.tx, transaction)]
      [] transaction.type = "withdrawal" ->
            LET w == withdrawal(self, unwrap_or(transaction.amount, F(0))) IN
            IF w.ret
            THEN [w.self EXCEPT !.transactions = insert(@, transaction.tx, transaction)]
            ELSE w.self
      [] transaction.type = "dispute" -> dispute(self, transaction)
      [] transaction.type = "resolve" -> resolve(self, transaction)
      [] transaction.type = "chargeback" -> chargeback(self, transaction)

process_transaction(self, transaction) ==
    CASE transaction.type = "deposit" ->
            [deposit(self, unwrap_or(transaction.amount, F(0))) EXCEPT
                !.transactions = insert(@, transaction.tx, transaction)]
      [] transaction.type = "withdrawal" ->
            LET w == withdrawal(self, unwrap_or(transaction.amount, F(0))) IN
            IF w.ret
            THEN [w.self EXCEPT !.transactions = insert(@, transaction.tx, transaction)]
            ELSE w.self
      [] transaction.type = "dispute" -> dispute(self, transaction)
      [] transaction.type = "resolve" -> resolve(self, transaction)
      [] transaction.type = "chargeback" -> chargeback(self, transaction)

----------------------------------------------------------------------------
(* account_manager.rs: its own Transaction (amount: f64) and Account *)

am_Transaction(type, client, tx, amount) ==
    [type |-> type, client |-> client, tx |-> tx, amount |-> amount]

am_Account_new(client_id) ==
    [transactions |-> EmptyMap,
     held_transactions |-> EmptyMap,
     frozen |-> FALSE,
     available_balance |-> F(0),
     client_id |-> client_id]

am_withdrawal(self, amount) ==
    IF fge(self.available_balance, amount)
    THEN [self |-> [self EXCEPT !.available_balance = fsub(@, amount)], ret |-> TRUE]
    ELSE [self |-> self, ret |-> FALSE]

am_deposit(self, amount) == [self EXCEPT !.available_balance = fadd(@, amount)]

am_dispute(self, disputed) ==
    IF disputed.tx \in DOMAIN self.transactions
    THEN LET transaction == self.transactions[disputed.tx] IN
         [self EXCEPT
            !.transactions = remove(@, disputed.tx),
            !.available_balance = fsub(@, transaction.amount),
            !.held_transactions = insert(@, transaction.tx, transaction)]
    ELSE self

\* the transaction is credited and removed from held, and not reposted
am_resolve_drops(self, resolved) ==
    IF resolved.tx \in DOMAIN self.held_transactions
    THEN LET transaction == self.held_transactions[resolved.tx] IN
         [self EXCEPT
            !.held_transactions = remove(@, resolved.tx),
            !.available_balance = fadd(@, transaction.amount)]
    ELSE self

am_resolve(self, resolved) ==
    IF resolved.tx \in DOMAIN self.held_transactions
    THEN LET transaction == self.held_transactions[resolved.tx] IN
         [self EXCEPT
            !.held_transactions = remove(@, resolved.tx),
            !.available_balance = fadd(@, transaction.amount),
            !.transactions = insert(@, transaction.tx, transaction)]
    ELSE self

am_chargeback(self, charged_back) ==
    IF charged_back.tx \in DOMAIN self.held_transactions
    THEN [self EXCEPT
            !.held_transactions = remove(@, charged_back.tx),
            !.frozen = TRUE]
    ELSE self

am_get_available_amount(self) == self.available_balance

\* total += value.amount over the values of held_transactions, from 0.0:
\* the totals of all orders in which HashMap::values() can yield the values
RECURSIVE am_sum_amounts(_, _)
am_sum_amounts(m, keys) ==
    IF keys = {} THEN {F(0)}
    ELSE UNION {UNION {fadd_any(total, m[k].amount) :
                          total \in am_sum_amounts(m, keys \ {k})} : k \in keys}

\* The values the call can return
am_get_held_amount(self) ==
    am_sum_amounts(self.held_transactions, DOMAIN self.held_transactions)

\* The values the call can return
am_get_total_amount(self) ==
    UNION {fadd_any(self.available_balance, held) : held \in am_get_held_amount(self)}

am_process_transaction(self, transaction) ==
    CASE transaction.type = "deposit" ->
            [am_deposit(self, transaction.amount) EXCEPT
                !.transactions = insert(@, transaction.tx, transaction)]
      [] transaction.type = "withdrawal" ->
            LET w == am_withdrawal(self, transaction.amount) IN
            IF w.ret
            THEN [w.self EXCEPT !.transactions = insert(@, transaction.tx, transaction)]
            ELSE w.self
      [] transaction.type = "dispute" -> am_dispute(self, transaction)
      [] transaction.type = "resolve" -> am_resolve(self, transaction)
      [] transaction.type = "chargeback" -> am_chargeback(self, transaction)

(* account_manager.rs: AccountManager *)

AccountManager_default == [c \in {} |-> am_Account_new(0)]

\* Find the account, or create it, and hand it the transaction.
\* a new account is built for every record, replacing the one stored
AccountManager_process_transaction_recreate(accts, transaction) ==
    LET new_account ==
            am_process_transaction(am_Account_new(transaction.client), transaction)
    IN  (new_account.client_id :> new_account) @@ accts

\* a dispute, resolve or chargeback is handed to every account, not only to
\* the one of its client
AccountManager_process_transaction_all(accts, transaction) ==
    LET routed ==
            IF transaction.client \in DOMAIN accts
            THEN [accts EXCEPT ![transaction.client] = am_process_transaction(@, transaction)]
            ELSE (transaction.client :>
                     am_process_transaction(am_Account_new(transaction.client), transaction))
                 @@ accts
    IN  IF transaction.type \in {"deposit", "withdrawal"}
        THEN routed
        ELSE [c \in DOMAIN routed |->
                 IF c = transaction.client THEN routed[c]
                 ELSE am_process_transaction(routed[c], transaction)]

\* with an account stored, a record of a client without an account is dropped
AccountManager_process_transaction_single(accts, transaction) ==
    IF transaction.client \in DOMAIN accts
    THEN [accts EXCEPT ![transaction.client] = am_process_transaction(@, transaction)]
    ELSE IF DOMAIN accts # {}
    THEN accts
    ELSE LET new_account ==
                 am_process_transaction(am_Account_new(transaction.client), transaction)
         IN  (new_account.client_id :> new_account) @@ accts

AccountManager_process_transaction(accts, transaction) ==
    IF transaction.client \in DOMAIN accts
    THEN [accts EXCEPT ![transaction.client] = am_process_transaction(@, transaction)]
    ELSE LET new_account ==
                 am_process_transaction(am_Account_new(transaction.client), transaction)
         IN  (new_account.client_id :> new_account) @@ accts

\* Prints the header line; the per-account rows are a TODO in the source.
output_accounts(lines, accts) ==
    Append(lines, "client, available, held, total, locked")

----------------------------------------------------------------------------
(* Inputs *)

\* Amount fields of the records read by main.rs (an f64 column)
MgrAmounts == {F(100), F(-60), NaN}

MgrTransactions ==
    {am_Transaction(ty, c, t, a) :
        ty \in {"deposit", "withdrawal"}, c \in Clients, t \in TxIds, a \in MgrAmounts}
    \cup
    {am_Transaction(ty, c, t, F(0)) :
        ty \in {"dispute", "resolve", "chargeback"}, c \in Clients, t \in TxIds}

\* Every shape of Option<f64> an account.rs Transaction can carry
AmountFields ==
    {None} \cup
    {Some(x) : x \in {F(100), F(60), from_decimal(6000), F(0), F(-60), NegZero,
                      Sub(1), Sub(-1), PInf, NInf, NaN, NegNaN}}

RawTransactions ==
    {Transaction(ty, c, t, a) :
        ty \in TransactionType, c \in Clients, t \in TxIds, a \in AmountFields}

\* Amount fields on dispute, resolve and chargeback records: absent or garbage
RefAmounts == {None, Some(NaN)}

\* The amounts of the deposits and withdrawals handed to an account.rs
\* Account: 100, 0.6 and 0.7 as their decimal text parses, and two amounts
\* that validate discards
AccountAmounts == {F(100), from_decimal(6000), from_decimal(7000), NInf, F(0)}

\* The transactions handed to an account.rs Account: those validate lets
\* through, for client 1
AccountTransactions ==
    {t \in
        {Transaction(ty, 1, x, Some(a)) :
            ty \in {"deposit", "withdrawal"}, x \in TxIds, a \in AccountAmounts}
        \cup
        {Transaction(ty, 1, x, a) :
            ty \in {"dispute", "resolve", "chargeback"}, x \in TxIds, a \in RefAmounts} :
        validate(t) = Some(t)}

----------------------------------------------------------------------------
(* Spec: main.rs, main from its start to its return *)

\* The amounts of the records are decimals of at most four fractional
\* digits, and an f64 stands for the decimal it is nearest to. DecOf(x) is
\* that decimal in units of 1/10000, the integer nearest to x * 10000, for
\* an x with Small(x).
Small(x) == x.cls = "fin" /\ bit_length(x.m) + x.e <= 17

DecOf(x) ==
    LET p == big_mul_small(x.m, TenThousand, 0)
        q == IF x.e >= 0 THEN big_shl(p, x.e) ELSE big_shr(p, 0 - x.e)
        up == x.e < 0 /\ bit(p, (0 - x.e) - 1) = 1
    IN  x.s * (big_int(q) + (IF up THEN 1 ELSE 0))

\* Nothing applied to `account` yet
NoneApplied == [deposits |-> 0, withdrawals |-> 0, chargebacks |-> 0]

\* The lines main writes to stdout besides the header: the usage line, and
\* the error line, which is its fixed text followed by the error formatted
\* with {:?}; the text of the error depends on the row and is kept as one
\* value
UsageLine == "Usage: cargo run -- filename.csv > output.csv"
ErrorLine == "Failed to deserialize a transaction: "
DeserializeError == "csv::Error"

Init ==
    /\ pc = "start"
    /\ n = 0
    /\ txn = NoTxn
    /\ accounts = AccountManager_default
    /\ out = <<>>
    /\ account = Account_new(0)
    /\ prev = Account_new(0)
    /\ posted_ids = {}
    /\ removed_ids = {}
    /\ applied = NoneApplied
    /\ swapped = AccountManager_default
    /\ input = NoNum
    /\ unique = TRUE
    /\ result = None

\* args.len() < 2: the usage line is printed and main returns
Usage ==
    /\ pc = "start"
    /\ out' = Append(out, UsageLine)
    /\ pc' = "exit"
    /\ UNCHANGED <<n, txn, accounts, account, prev, posted_ids, removed_ids, unique,
                   result, input, swapped, applied>>

\* from_path(..) is an Err: expect panics, nothing is written to stdout
OpenFails ==
    /\ pc = "start"
    /\ pc' = "panic"
    /\ UNCHANGED <<n, txn, accounts, out, account, prev, posted_ids, removed_ids, unique,
                   result, input, swapped, applied>>

\* the manager and the reader are constructed
Open ==
    /\ pc = "start"
    /\ pc' = "read"
    /\ UNCHANGED <<n, txn, accounts, out, account, prev, posted_ids, removed_ids, unique,
                   result, input, swapped, applied>>

\* Ok(transaction) => account_manager.process_transaction(transaction)
ReadRecord ==
    /\ pc = "read"
    /\ n < MaxRecords
    /\ \E t \in MgrTransactions :
          /\ txn' = t
          /\ accounts' = AccountManager_process_transaction(accounts, t)
    /\ n' = n + 1
    /\ UNCHANGED <<pc, out, account, prev, posted_ids, removed_ids, unique, result, input, swapped,
                   applied>>

\* Err(error) => the message is printed and main returns
ReadError ==
    /\ pc = "read"
    /\ out' = Append(out, ErrorLine \o DeserializeError)
    /\ pc' = "exit"
    /\ UNCHANGED <<n, txn, accounts, account, prev, posted_ids, removed_ids, unique,
                   result, input, swapped,
                   applied>>

\* the reader is exhausted: account_manager.output_accounts()
EndOfInput ==
    /\ pc = "read"
    /\ out' = output_accounts(out, accounts)
    /\ pc' = "exit"
    /\ UNCHANGED <<n, txn, accounts, account, prev, posted_ids, removed_ids, unique,
                   result, input, swapped,
                   applied>>

Next == Usage \/ OpenFails \/ Open \/ ReadRecord \/ ReadError \/ EndOfInput

Spec == Init /\ [][Next]_vars

----------------------------------------------------------------------------
(* SpecAccount: one account.rs Account fed through process_transaction *)

InitAccount ==
    /\ pc = "account"
    /\ n = 0
    /\ txn = NoTxn
    /\ accounts = AccountManager_default
    /\ out = <<>>
    /\ account = Account_new(1)
    /\ prev = Account_new(1)
    /\ posted_ids = {}
    /\ removed_ids = {}
    /\ applied = NoneApplied
    /\ swapped = AccountManager_default
    /\ input = NoNum
    /\ unique = TRUE
    /\ result = None

\* TRUE when process_transaction records t into account.transactions
Recorded(self, t) ==
    \/ t.type = "deposit"
    \/ t.type = "withdrawal" /\ withdrawal(self, unwrap_or(t.amount, F(0))).ret

\* TRUE when chargeback removes t.tx from account.held_transactions
ChargedBack(self, t) ==
    t.type = "chargeback" /\ t.tx \in DOMAIN self.held_transactions

\* The sums after t, in units of 1/10000: the amount of a deposit, of a withdrawal that succeeds,
\* of the stored transaction a chargeback removes from held
Apply(sums, self, t) ==
    CASE t.type = "deposit" ->
            [sums EXCEPT !.deposits = @ + DecOf(unwrap_or(t.amount, F(0)))]
      [] t.type = "withdrawal" /\ Recorded(self, t) ->
            [sums EXCEPT !.withdrawals = @ + DecOf(unwrap_or(t.amount, F(0)))]
      [] ChargedBack(self, t) ->
            [sums EXCEPT !.chargebacks =
                      @ + DecOf(self.held_transactions[t.tx].amount[1])]
      [] OTHER -> sums

AccountStep ==
    /\ pc = "account"
    /\ n < MaxSteps
    /\ \E t \in AccountTransactions :
          /\ txn' = t
          /\ account' = process_transaction(account, t)
          /\ posted_ids' = IF Recorded(account, t) THEN posted_ids \cup {t.tx}
                           ELSE posted_ids
          /\ unique' = (unique /\ ~(Recorded(account, t) /\ t.tx \in posted_ids))
          /\ removed_ids' = IF ChargedBack(account, t) THEN removed_ids \cup {t.tx}
                            ELSE removed_ids
          /\ applied' = Apply(applied, account, t)
    /\ prev' = account
    /\ n' = n + 1
    /\ UNCHANGED <<pc, accounts, out, result, input, swapped>>

NextAccount == AccountStep

SpecAccount == InitAccount /\ [][NextAccount]_vars

----------------------------------------------------------------------------
(* SpecValidate: Transaction::validate on one transaction *)

InitValidate ==
    /\ pc = "validate"
    /\ n = 0
    /\ txn \in RawTransactions
    /\ accounts = AccountManager_default
    /\ out = <<>>
    /\ account = Account_new(0)
    /\ prev = Account_new(0)
    /\ posted_ids = {}
    /\ removed_ids = {}
    /\ applied = NoneApplied
    /\ swapped = AccountManager_default
    /\ input = NoNum
    /\ unique = TRUE
    /\ result = None

Validate ==
    /\ pc = "validate"
    /\ result' = validate(txn)
    /\ pc' = "validated"
    /\ UNCHANGED <<n, txn, accounts, out, account, prev, posted_ids, removed_ids, unique,
                   input, swapped,
                   applied>>

NextValidate == Validate

SpecValidate == InitValidate /\ [][NextValidate]_vars

----------------------------------------------------------------------------
(* SpecRound: round on one value *)

RoundInputs ==
    {Dec(neg, w, f) :
        neg \in BOOLEAN,
        w \in {0, 1, 2, 96, 150, 214748, 214749, 1000000},
        f \in {0, 9, 30, 1000, 4090, 4091, 4095, 36470, 36480, 99999}}

InitRound ==
    /\ pc = "round"
    /\ n = 0
    /\ txn = NoTxn
    /\ accounts = AccountManager_default
    /\ out = <<>>
    /\ account = Account_new(0)
    /\ prev = Account_new(0)
    /\ posted_ids = {}
    /\ removed_ids = {}
    /\ applied = NoneApplied
    /\ swapped = AccountManager_default
    /\ unique = TRUE
    /\ result = None
    /\ input \in RoundInputs

Round ==
    /\ pc = "round"
    /\ result' = round(input)
    /\ pc' = "rounded"
    /\ UNCHANGED <<n, txn, accounts, out, account, prev, posted_ids, removed_ids, unique,
                   input, swapped,
                   applied>>

NextRound == Round

SpecRound == InitRound /\ [][NextRound]_vars

----------------------------------------------------------------------------
(* SpecSwap: two managers read the same records, but for one adjacent pair
   of records of different clients, which the second manager reads in the
   other order *)

InitSwap ==
    /\ pc = "prefix"
    /\ n = 0
    /\ txn = NoTxn
    /\ accounts = AccountManager_default
    /\ swapped = AccountManager_default
    /\ out = <<>>
    /\ account = Account_new(0)
    /\ prev = Account_new(0)
    /\ posted_ids = {}
    /\ removed_ids = {}
    /\ applied = NoneApplied
    /\ input = NoNum
    /\ unique = TRUE
    /\ result = None

\* a record before the pair: both managers process it
SwapPrefix ==
    /\ pc = "prefix"
    /\ n < MaxTx
    /\ \E t \in MgrTransactions :
          /\ txn' = t
          /\ accounts' = AccountManager_process_transaction(accounts, t)
          /\ swapped' = AccountManager_process_transaction(swapped, t)
    /\ n' = n + 1
    /\ UNCHANGED <<pc, out, account, prev, posted_ids, removed_ids, unique, result, input,
                   applied>>

\* the first record of the pair: the first manager processes it, the second
\* manager will process it after the next record
SwapFirst ==
    /\ pc = "prefix"
    /\ \E t \in MgrTransactions :
          /\ txn' = t
          /\ accounts' = AccountManager_process_transaction(accounts, t)
    /\ pc' = "pair"
    /\ n' = n + 1
    /\ UNCHANGED <<swapped, out, account, prev, posted_ids, removed_ids, unique, result,
                   input,
                   applied>>

\* the second record of the pair, of another client: the second manager
\* processes it and then the first record of the pair
SwapSecond ==
    /\ pc = "pair"
    /\ \E t \in MgrTransactions :
          /\ t.client # txn.client
          /\ txn' = t
          /\ accounts' = AccountManager_process_transaction(accounts, t)
          /\ swapped' = AccountManager_process_transaction(
                            AccountManager_process_transaction(swapped, t), txn)
    /\ pc' = "done"
    /\ n' = n + 1
    /\ UNCHANGED <<out, account, prev, posted_ids, removed_ids, unique, result, input,
                   applied>>

NextSwap == SwapPrefix \/ SwapFirst \/ SwapSecond

SpecSwap == InitSwap /\ [][NextSwap]_vars

----------------------------------------------------------------------------
(* Vocabulary of the properties *)

Posted(a) == DOMAIN a.transactions
Held(a) == DOMAIN a.held_transactions

\* The sum of the stored amounts of the held transactions, in units of
\* 1/10000
RECURSIVE HeldSumUpTo(_, _)
HeldSumUpTo(a, k) ==
    IF k = 0 THEN 0
    ELSE HeldSumUpTo(a, k - 1)
         + (IF k \in Held(a) THEN DecOf(a.held_transactions[k].amount[1]) ELSE 0)

HeldSum(a) == HeldSumUpTo(a, MaxTx)

\* The f64 x is the one the decimal k / 10000 parses to (either zero for 0)
IsDec(x, k) ==
    /\ x.cls = "fin"
    /\ LET d == from_decimal(k) IN
       x.m = d.m /\ x.e = d.e /\ (x.s = d.s \/ d.m = <<>>)

\* The f64 x stands for a decimal of at most four fractional digits
Denotes(x) == Small(x) /\ IsDec(x, DecOf(x))

\* From x1 to x2 the balance rose by exactly d / 10000 (fell, for d < 0):
\* x1 standing for a decimal, x2 stands for that decimal plus d / 10000
RoseBy(x1, x2, d) == Denotes(x1) => IsDec(x2, DecOf(x1) + d)

\* The same for every value the balance can be reported with before and after
AllRoseBy(S1, S2, d) == \A x1 \in S1, x2 \in S2 : RoseBy(x1, x2, d)

\* Present, finite, not NaN, not zero, not subnormal, strictly positive
PositiveNormalAmount(o) ==
    /\ o # None
    /\ o[1].cls \notin {"nan", "inf"}
    /\ o[1].m # <<>>
    /\ ~(o[1].e = MinExp /\ bit_length(o[1].m) < MantBits)
    /\ o[1].s = 1

\* A record of main.rs that validate would discard
Rejected(t) ==
    /\ t.type \in {"deposit", "withdrawal"}
    /\ validate(Transaction(t.type, t.client, t.tx, Some(t.amount))) = None

----------------------------------------------------------------------------
(* C1 *)

\* C1: once an account of the manager is frozen, every later record for that
\* client is dropped: the account stays exactly as it was.
C1_FrozenAccountDropsAll ==
    [][\A c \in DOMAIN accounts :
          accounts[c].frozen => (c \in DOMAIN accounts' /\ accounts'[c] = accounts[c])]_vars

(* C2 *)

\* C2: a Deposit or Withdrawal with an invalid amount is discarded by the
\* manager: afterwards the target account does not exist, or is as it was
\* before the record (a new account being as Account::new leaves it).
C2_InvalidAmountDiscarded ==
    [][(n' = n + 1 /\ Rejected(txn')) =>
          LET c == txn'.client IN
          \/ c \notin DOMAIN accounts'
          \/ c \in DOMAIN accounts /\ accounts'[c] = accounts[c]
          \/ c \notin DOMAIN accounts /\ accounts'[c] = am_Account_new(c)]_vars

(* C3 *)

\* C3: validate returns a Deposit or Withdrawal if and only if its amount is
\* present, finite, not NaN, not zero, not subnormal and strictly positive,
\* and returns nothing otherwise.
C3_ValidateAmount ==
    (pc = "validated" /\ txn.type \in {"deposit", "withdrawal"}) =>
        /\ (result = Some(txn)) <=> PositiveNormalAmount(txn.amount)
        /\ result # Some(txn) => result = None

\* a positive subnormal deposit was validated and discarded
C3_Witness ==
    /\ pc = "validated"
    /\ txn.type = "deposit"
    /\ txn.amount = Some(Sub(1))
    /\ result = None

(* C4 *)

\* C4: validate returns every Dispute, Resolve and Chargeback unchanged,
\* whatever the amount field holds.
C4_ValidateReferences ==
    (pc = "validated" /\ txn.type \in {"dispute", "resolve", "chargeback"}) =>
        result = Some(txn)

\* a chargeback carrying a NaN amount was validated and returned
C4_Witness ==
    /\ pc = "validated"
    /\ txn.type = "chargeback"
    /\ txn.amount = Some(NaN)
    /\ result = Some(txn)

(* C5 *)

\* C5 (as claimed): after every applied transaction of any sequence of
\* records, no tx id is in both posted and held.
C5_DisjointAnyStream == Posted(account) \cap Held(account) = {}

\* C5 (amended): as long as no deposit or withdrawal was recorded under a tx
\* id already recorded for the account, no tx id is in both posted and held.
C5_DisjointUniqueIds == unique => Posted(account) \cap Held(account) = {}

\* ids were unique, one transaction is posted and another is under dispute
C5_Witness ==
    /\ unique
    /\ n >= 3
    /\ Posted(account) # {}
    /\ Held(account) # {}

(* C6 *)

\* C6: in every reachable state the held balance is the sum of the stored
\* amounts of the held transactions, and the total balance is the available
\* balance plus the held balance (on streams that keep the tx ids unique).
C6_HeldAndTotal ==
    unique =>
        /\ \A held \in get_held_amount(account) : IsDec(held, HeldSum(account))
        /\ Denotes(account.available_balance) =>
              \A total \in get_total_amount(account) :
                  IsDec(total, DecOf(account.available_balance) + HeldSum(account))

(* C7 *)

\* C7: a Withdrawal of a succeeds iff a <= available; on success available and
\* total fall by exactly a and the record is stored in posted; on failure the
\* account is unchanged and an id that was unknown stays unknown, a dispute of
\* it being a no-op (on streams that keep the tx ids unique).
C7_Withdrawal ==
    (unique /\ n > 0 /\ txn.type = "withdrawal") =>
        LET a == txn.amount[1] IN
        IF fge(prev.available_balance, a)
        THEN /\ RoseBy(prev.available_balance, account.available_balance, 0 - DecOf(a))
             /\ AllRoseBy(get_total_amount(prev), get_total_amount(account),
                          0 - DecOf(a))
             /\ txn.tx \in Posted(account)
             /\ account.transactions[txn.tx] = txn
             /\ account.held_transactions = prev.held_transactions
             /\ account.frozen = prev.frozen
        ELSE /\ account = prev
             /\ txn.tx \notin Posted(prev) \cup Held(prev) =>
                   /\ txn.tx \notin Posted(account) \cup Held(account)
                   /\ \A g \in RefAmounts :
                         dispute(account, Transaction("dispute", 1, txn.tx, g)) = account

(* C8 *)

\* C8: a validated Deposit of a > 0 on a non-frozen account raises available
\* and total by exactly a, leaves held unchanged and stores the record in
\* posted (on streams that keep the tx ids unique).
C8_Deposit ==
    (unique /\ n > 0 /\ txn.type = "deposit" /\ ~prev.frozen) =>
        LET a == txn.amount[1] IN
        /\ a.s = 1 /\ a.m # <<>>
        /\ RoseBy(prev.available_balance, account.available_balance, DecOf(a))
        /\ AllRoseBy(get_total_amount(prev), get_total_amount(account), DecOf(a))
        /\ get_held_amount(account) = get_held_amount(prev)
        /\ txn.tx \in Posted(account)
        /\ account.transactions[txn.tx] = txn

(* C9 *)

\* C9: a Dispute whose tx id is in posted moves the transaction from posted to
\* held, lowers available by the stored amount and raises held by the same
\* amount, total unchanged, whatever its own amount field (on streams that
\* keep the tx ids unique).
C9_DisputeMovesStoredAmount ==
    (unique /\ n > 0 /\ txn.type = "dispute" /\ txn.tx \in Posted(prev)) =>
        LET stored == prev.transactions[txn.tx]
            s == DecOf(stored.amount[1])
        IN  /\ txn.tx \notin Posted(account)
            /\ txn.tx \in Held(account)
            /\ account.held_transactions[txn.tx] = stored
            /\ RoseBy(prev.available_balance, account.available_balance, 0 - s)
            /\ AllRoseBy(get_held_amount(prev), get_held_amount(account), s)
            /\ AllRoseBy(get_total_amount(prev), get_total_amount(account), 0)
            /\ \A g \in AmountFields :
                  process_transaction(prev, [txn EXCEPT !.amount = g]) = account

(* C10 *)

\* C10: for any state with t in posted, Dispute(t) followed at once by
\* Resolve(t) restores the state before the dispute exactly (on streams that
\* keep the tx ids unique, where a posted tx id is never also in held).
C10_ResolveInvertsDispute ==
    [][(/\ unique
        /\ n > 0
        /\ txn.type = "dispute"
        /\ txn.tx \in Posted(prev)
        /\ n' = n + 1
        /\ txn'.type = "resolve"
        /\ txn'.tx = txn.tx) => account' = prev]_vars

----------------------------------------------------------------------------
(* C11 *)

\* C11: a Chargeback whose tx id is in held removes the transaction from held,
\* leaves available unchanged, lowers held and total by the stored amount and
\* freezes the account; deposit(100), dispute, chargeback of one tx ends with
\* available 0, held 0, total 0, frozen (on streams that keep the tx ids
\* unique).
C11_Chargeback ==
    /\ (unique /\ n > 0 /\ txn.type = "chargeback" /\ txn.tx \in Held(prev)) =>
          LET s == DecOf(prev.held_transactions[txn.tx].amount[1]) IN
          /\ txn.tx \notin Held(account)
          /\ Held(account) = Held(prev) \ {txn.tx}
          /\ account.transactions = prev.transactions
          /\ account.available_balance = prev.available_balance
          /\ AllRoseBy(get_held_amount(prev), get_held_amount(account), 0 - s)
          /\ AllRoseBy(get_total_amount(prev), get_total_amount(account), 0 - s)
          /\ account.frozen
    /\ (/\ n = 3
        /\ txn.type = "chargeback"
        /\ txn.tx \in Held(prev)
        /\ prev.held_transactions[txn.tx].type = "deposit"
        /\ prev.held_transactions[txn.tx].amount = Some(F(100))
        /\ prev.available_balance = F(0)) =>
          /\ get_available_amount(account) = F(0)
          /\ get_held_amount(account) = {F(0)}
          /\ get_total_amount(account) = {F(0)}
          /\ is_frozen(account)

(* C12 *)

\* C12: a Dispute whose tx id is not in posted (never seen, a failed
\* withdrawal, already held, already charged back) leaves the whole account
\* unchanged; a second dispute of a tx does not subtract its amount twice.
C12_DisputeNotPosted ==
    (n > 0 /\ txn.type = "dispute" /\ txn.tx \notin Posted(prev)) =>
        /\ account = prev
        /\ get_held_amount(account) = get_held_amount(prev)
        /\ get_total_amount(account) = get_total_amount(prev)

\* a second dispute of a transaction that is already held left the account as
\* it was
C12_Witness ==
    /\ n > 0
    /\ txn.type = "dispute"
    /\ txn.tx \in Held(prev) \ Posted(prev)
    /\ account = prev
    /\ \A held \in get_held_amount(account) : held.s = 1 /\ held.m # <<>>

(* C13 *)

\* C13: a Resolve or a Chargeback whose tx id is not in held leaves the whole
\* account unchanged; such a Chargeback neither freezes the account nor
\* changes the total.
C13_ResolveChargebackNotHeld ==
    (n > 0 /\ txn.type \in {"resolve", "chargeback"} /\ txn.tx \notin Held(prev)) =>
        /\ account = prev
        /\ account.frozen = prev.frozen
        /\ get_total_amount(account) = get_total_amount(prev)

\* a chargeback of a posted transaction that is not under dispute left the
\* account unfrozen and unchanged
C13_Witness ==
    /\ n > 0
    /\ txn.type = "chargeback"
    /\ txn.tx \in Posted(prev) \ Held(prev)
    /\ ~account.frozen
    /\ account = prev

----------------------------------------------------------------------------
(* C14 *)

HeaderLine == "client, available, held, total, locked"

\* The summary rows of an account: one for each value the held total can take
SummaryRows(a) ==
    UNION {{<<a.client_id, am_get_available_amount(a), held, total, a.frozen>> :
               total \in fadd_any(a.available_balance, held)} :
           held \in am_get_held_amount(a)}

\* C14: at the end of the stream the render step writes, after the header,
\* exactly one summary row for every account the manager holds.
C14_RenderOneRowPerAccount ==
    (pc = "exit" /\ Len(out) > 0 /\ out[1] = HeaderLine) =>
        /\ Len(out) = 1 + Cardinality(DOMAIN accounts)
        /\ \A c \in DOMAIN accounts :
              \E i \in 2..Len(out) : out[i] \in SummaryRows(accounts[c])

(* C15 *)

\* C15: when a record fails to parse, no later record is applied, what was
\* applied stays applied, and the render step still runs: the summary is
\* written.
C15_ParseErrorStillRenders ==
    [][/\ pc = "exit" => accounts' = accounts
       /\ (\E i \in (Len(out) + 1)..Len(out') :
                out'[i] = ErrorLine \o DeserializeError) =>
             /\ pc' = "exit"
             /\ accounts' = accounts
             /\ \E j \in (Len(out) + 1)..Len(out') : out'[j] = HeaderLine]_vars

(* C16 *)

\* An account as the manager creates it, written out
FreshAccount(c) ==
    [transactions |-> <<>>,
     held_transactions |-> <<>>,
     frozen |-> FALSE,
     available_balance |-> [cls |-> "fin", s |-> 1, m |-> <<>>, e |-> -1074],
     client_id |-> c]

\* C16: the first record for a client id without an account creates exactly
\* one account for it, with balance 0, empty posted and held sets and not
\* frozen, before the record is applied; every later record for the id is
\* applied to that same account, which is never reset or recreated.
C16_LazyAccountCreation ==
    [][n' = n + 1 =>
          LET c == txn'.client IN
          /\ DOMAIN accounts' = DOMAIN accounts \cup {c}
          /\ accounts'[c].client_id = c
          /\ accounts'[c] =
                am_process_transaction(
                    IF c \in DOMAIN accounts THEN accounts[c] ELSE FreshAccount(c),
                    txn')]_vars

\* a second deposit reached the account the first one created
C16_Witness ==
    /\ n = 2
    /\ txn.type = "deposit"
    /\ txn.client \in DOMAIN accounts
    /\ accounts[txn.client].available_balance = F(200)
    /\ Cardinality(DOMAIN accounts) = 1

(* C20 *)

\* C20: a record for client c changes only the account of c: every other
\* client's account exists or not as before and is unchanged, also when the
\* record names a tx id posted to another client's account.
C20_OnlyTargetAccountChanges ==
    [][n' = n + 1 =>
          \A d \in Clients \ {txn'.client} :
              /\ d \in DOMAIN accounts' <=> d \in DOMAIN accounts
              /\ d \in DOMAIN accounts => accounts'[d] = accounts[d]]_vars

\* client 2 disputed its tx while client 1 has the same tx id posted: the
\* transaction of client 1 is still posted
C20_Witness ==
    /\ txn.type = "dispute"
    /\ txn.client = 2
    /\ DOMAIN accounts = {1, 2}
    /\ txn.tx \in Held(accounts[2])
    /\ txn.tx \in Posted(accounts[1])
    /\ accounts[1].available_balance = F(100)

----------------------------------------------------------------------------
(* C17 *)

\* Where a tx id of the account is
TxState(a, removed, t) ==
    IF t \in Posted(a) /\ t \in Held(a) THEN "posted and held"
    ELSE IF t \in Posted(a) THEN "posted"
    ELSE IF t \in Held(a) THEN "held"
    ELSE IF t \in removed THEN "removed"
    ELSE "unknown"

\* The step from `account` to `account'` keeps every tx id where it is or
\* moves it along one edge of the life cycle, by the record of that edge
LifeCycleStep ==
    \A t \in TxIds :
        LET from == TxState(account, removed_ids, t)
            to == TxState(account', removed_ids', t)
        IN  \/ to = from
            \/ /\ from = "unknown" /\ to = "posted"
               /\ txn'.type \in {"deposit", "withdrawal"} /\ txn'.tx = t
            \/ /\ from = "posted" /\ to = "held"
               /\ txn'.type = "dispute" /\ txn'.tx = t
            \/ /\ from = "held" /\ to = "posted"
               /\ txn'.type = "resolve" /\ txn'.tx = t
            \/ /\ from = "held" /\ to = "removed"
               /\ txn'.type = "chargeback" /\ txn'.tx = t

\* C17 (as claimed): each tx id moves only along Unknown -> Posted,
\* Posted -> Held, Held -> Posted and Held -> Removed, and a removed id is
\* never again in posted or held, whatever records follow.
C17_LifeCycleAnyStream == [][LifeCycleStep]_vars

\* C17 (amended): the same, for streams in which no deposit or withdrawal is
\* recorded under a tx id already recorded for the account.
C17_LifeCycleUniqueIds == [][unique' => LifeCycleStep]_vars

\* a record followed a chargeback, ids were unique and the charged-back id is
\* still removed
C17_Witness ==
    /\ unique
    /\ removed_ids # {}
    /\ txn.type # "chargeback"
    /\ \A t \in removed_ids : TxState(account, removed_ids, t) = "removed"
    /\ \E t \in TxIds : TxState(account, removed_ids, t) = "posted"

(* C18 *)

\* num truncated toward zero to four fractional digits
Trunc4(x) == Dec(x.neg, x.w, (x.f \div 10) * 10)

\* Equality of two decimals as numbers (0 = -0)
SameNumber(x, y) ==
    /\ x.w = y.w
    /\ x.f = y.f
    /\ (x.neg = y.neg \/ (x.w = 0 /\ x.f = 0))

\* C18: round(v) is v truncated toward zero to 4 fractional digits for every
\* balance value v, also when v * 10000 does not fit a 32-bit signed integer;
\* 96.04091 and 96.04095 both give 96.0409.
C18_RoundTruncates ==
    pc = "rounded" =>
        /\ SameNumber(result, Trunc4(input))
        /\ input \in {Dec(FALSE, 96, 4091), Dec(FALSE, 96, 4095)} =>
              result = Dec(FALSE, 96, 4090)

(* C19 *)

\* C19: disputing a posted Withdrawal of amount a lowers available by a
\* further a and raises held by a, total unchanged, so that a negative
\* available balance is reachable (on streams that keep the tx ids unique).
C19_WithdrawalDispute ==
    (/\ unique
     /\ n > 0
     /\ txn.type = "dispute"
     /\ txn.tx \in Posted(prev)
     /\ prev.transactions[txn.tx].type = "withdrawal") =>
        LET a == DecOf(prev.transactions[txn.tx].amount[1]) IN
        /\ RoseBy(prev.available_balance, account.available_balance, 0 - a)
        /\ AllRoseBy(get_held_amount(prev), get_held_amount(account), a)
        /\ AllRoseBy(get_total_amount(prev), get_total_amount(account), 0)
        /\ txn.tx \in Held(account)
        /\ account.held_transactions[txn.tx] = prev.transactions[txn.tx]

----------------------------------------------------------------------------
(* C21 *)

\* C21: swapping two adjacent records of different clients gives the same
\* ledger: the same accounts with the same balances, posted and held sets
\* and frozen flags. The records after the pair are the same for both
\* managers, so the ledgers stay equal to the end of the stream.
C21_SwapDifferentClients ==
    pc = "done" =>
        /\ DOMAIN accounts = DOMAIN swapped
        /\ \A c \in DOMAIN accounts :
              /\ accounts[c].available_balance = swapped[c].available_balance
              /\ am_get_held_amount(accounts[c]) = am_get_held_amount(swapped[c])
              /\ am_get_total_amount(accounts[c]) = am_get_total_amount(swapped[c])
              /\ accounts[c].transactions = swapped[c].transactions
              /\ accounts[c].held_transactions = swapped[c].held_transactions
              /\ accounts[c].frozen = swapped[c].frozen
              /\ accounts[c].client_id = swapped[c].client_id

\* the pair was a chargeback that froze one account and the record that
\* created the other account
C21_Witness ==
    /\ pc = "done"
    /\ DOMAIN accounts = {1, 2}
    /\ \E c \in {1, 2} :
          /\ accounts[c].frozen
          /\ accounts[3 - c].transactions # EmptyMap
          /\ txn.client = 3 - c
          /\ txn.type = "deposit"
    /\ n = MaxTx + 2

(* C22 *)

\* C22: the frozen flag is false at creation, turns true only in the step
\* of a chargeback that finds its tx id in held, and once true is true after
\* every later step.
C22_FrozenOnlyByChargeback ==
    [][/\ n = 0 => ~is_frozen(account)
       /\ (~is_frozen(account) /\ is_frozen(account')) => ChargedBack(account, txn')
       /\ is_frozen(account) => is_frozen(account')]_vars

\* a chargeback froze the account before the last record, a dispute that
\* moved a transaction to held, and the account is still frozen
C22_Witness ==
    /\ is_frozen(account)
    /\ is_frozen(prev)
    /\ removed_ids # {}
    /\ txn.type = "dispute"
    /\ Held(account) # Held(prev)
    /\ n = MaxSteps

(* C23 *)

\* The last record was a dispute, a resolve, a failed withdrawal or a
\* chargeback of a tx id not in held
NoTotalChange ==
    \/ txn.type \in {"dispute", "resolve"}
    \/ txn.type = "withdrawal" /\ ~Recorded(prev, txn)
    \/ txn.type = "chargeback" /\ ~ChargedBack(prev, txn)

\* C23: with unique deposit and withdrawal tx ids, the total balance is the
\* sum of the deposits applied, minus the sum of the successful withdrawals,
\* minus the sum of the stored amounts of the charged-back transactions; a
\* dispute, a resolve, a failed withdrawal and a reference that finds nothing
\* leave the total as it was.
C23_TotalIsSumOfApplied ==
    unique =>
        /\ \A total \in get_total_amount(account) :
              IsDec(total, applied.deposits - applied.withdrawals - applied.chargebacks)
        /\ (n > 0 /\ NoTotalChange) =>
              AllRoseBy(get_total_amount(prev), get_total_amount(account), 0)

(* C24 *)

\* The transactions an account stores, with the map that stores each
Entries(a) ==
    {<<"posted", a.transactions[t]>> : t \in Posted(a)}
    \cup {<<"held", a.held_transactions[t]>> : t \in Held(a)}

\* The stored transactions: tx id, kind and amount
Records(a) == {e[2] : e \in Entries(a)}

\* From a to b a stored transaction left the union of posted and held
Leaves(a, b) ==
    \/ Records(a) \ Records(b) # {}
    \/ Cardinality(Entries(b)) < Cardinality(Entries(a))

\* Record t is a deposit or a successful withdrawal under a tx id that
\* account a stores already
ReusesStoredId(a, t) ==
    /\ t.tx \in Posted(a) \cup Held(a)
    /\ \/ t.type = "deposit"
       \/ t.type = "withdrawal" /\ am_withdrawal(a, t.amount).ret

\* What the step from accounts to accounts' may do to the stored
\* transactions of account c
OnlyChargebackRemoves(c) ==
    LET a == accounts[c]
        b == accounts'[c]
    IN  /\ Leaves(a, b) =>
              /\ txn'.type = "chargeback"
              /\ txn'.client = c
              /\ txn'.tx \in Held(a)
              /\ Entries(a) \ Entries(b) = {<<"held", a.held_transactions[txn'.tx]>>}
        /\ (txn'.type = "dispute" /\ txn'.client = c /\ txn'.tx \in Posted(a)) =>
              /\ Records(b) = Records(a)
              /\ txn'.tx \in Held(b) \ Posted(b)
              /\ b.held_transactions[txn'.tx] = a.transactions[txn'.tx]
        /\ (txn'.type = "resolve" /\ txn'.client = c /\ txn'.tx \in Held(a)) =>
              /\ Records(b) = Records(a)
              /\ txn'.tx \in Posted(b) \ Held(b)
              /\ b.transactions[txn'.tx] = a.held_transactions[txn'.tx]

\* C24 (as claimed): no account is ever removed from the manager, and in any
\* stream a stored transaction leaves the union of posted and held only by a
\* successful chargeback; dispute and resolve only relocate it, keeping its
\* tx id, kind and amount.
C24_OnlyChargebackRemovesAnyStream ==
    [][/\ DOMAIN accounts \subseteq DOMAIN accounts'
       /\ \A c \in DOMAIN accounts : OnlyChargebackRemoves(c)]_vars

\* C24 (amended): no account is ever removed from the manager; the rest
\* holds in a step that starts with no tx id of the account in both posted
\* and held and whose record is not a deposit or successful withdrawal under
\* a tx id the account stores already. (An account that is not the record's
\* and is left as it was satisfies OnlyChargebackRemoves.)
C24_OnlyChargebackRemoves ==
    [][/\ DOMAIN accounts \subseteq DOMAIN accounts'
       /\ \A c \in DOMAIN accounts :
             \/ txn'.client # c /\ accounts'[c] = accounts[c]
             \/ (/\ Posted(accounts[c]) \cap Held(accounts[c]) = {}
                 /\ ~(txn'.client = c /\ ReusesStoredId(accounts[c], txn')))
                   => OnlyChargebackRemoves(c)]_vars

\* two deposits, the dispute and the chargeback of the first: the account of
\* the last record is frozen, holds nothing, and still stores the second
C24_Witness ==
    /\ n = MaxRecords
    /\ txn.type = "chargeback"
    /\ txn.client \in DOMAIN accounts
    /\ accounts[txn.client].frozen
    /\ Held(accounts[txn.client]) = {}
    /\ Posted(accounts[txn.client]) # {}
    /\ txn.tx \notin Posted(accounts[txn.client])

(* C25 *)

\* The last record was a deposit under a tx id that was in posted
DepositOnPostedId == n > 0 /\ txn.type = "deposit" /\ txn.tx \in Posted(prev)

====
